---- MODULE Spec2Model ----
(***************************************************************************)
(* The glyph atlas of metalglyph: two InnerAtlas planes (mask, color),     *)
(* each a texture, a rectangle packer, an LRU glyph cache and the set of   *)
(* glyphs in use this frame.  try_allocate, grow and trim are translated   *)
(* from src/src/text_atlas.rs; the residency protocol that drives them     *)
(* (ensure_resident) follows section 4.2 of the specification.  The        *)
(* pipeline cache the renderers share is translated from src/src/cache.rs, *)
(* the frame loop from src/examples/hello-world.rs.                        *)
(***************************************************************************)
EXTENDS Integers, Sequences, FiniteSets, TLC

VARIABLES
    size,           \* kind -> InnerAtlas::size
    packer,         \* kind -> InnerAtlas::packer  (side length, live allocations)
    texture,        \* kind -> InnerAtlas::texture (side length)
    glyph_cache,    \* kind -> InnerAtlas::glyph_cache, least recently used first
    glyphs_in_use,  \* kind -> InnerAtlas::glyphs_in_use
    pc,             \* position inside ensure_resident: idle, allocate, grow, aborted
    req,            \* the key ensure_resident is working on (0: none)
    scale_factor,   \* the scale of the request ensure_resident is working on (0: none)
    access,         \* kind -> cached keys in the order of their last access
    origin,         \* <<key, scale>>: the scale of the request that cached the key
    out,            \* what the last step did and returned
    pending,        \* frames committed and not yet consumed by the device, oldest first
    pipeline_cache, \* Inner::cache of the Cache: the (format, pipeline) pairs
    lock,           \* the renderer that holds the Mutex of Inner::cache (0: free)
    renderer,       \* renderer -> its position in get_or_create_pipeline, key, result
    created         \* the pipelines the compiler has created, in order

(* What the atlas methods leave alone: the device queue and the Cache *)
beside == <<pending, pipeline_cache, lock, renderer, created>>

vars == <<size, packer, texture, glyph_cache, glyphs_in_use, pc, req,
          scale_factor, access, origin, out, pending, pipeline_cache, lock,
          renderer, created>>

-----------------------------------------------------------------------------
(* Program constants *)

INITIAL_SIZE == 256

MAX_TEXTURE_DIMENSION_2D == 16384

GROWTH_FACTOR == 2

(* Bound of the model: the number of distinct glyph identities *)
NumKeys == 5

(* Bound of the model: the glyphs requested after the plane is full, in    *)
(* the run that fills a plane with equal glyphs                            *)
SecondBatch == 6

-----------------------------------------------------------------------------
(* The scale factors of requests, the usual one first *)
Scales == <<1, 2>>

(* Option values: None is the empty sequence, Some(v) the one-element one *)

None == <<>>

Some(v) == <<v>>

Min(a, b) == IF a <= b THEN a ELSE b

(* Kind: the two planes of a TextAtlas *)
Kinds == {"Mask", "Color"}

(* Glyph identities.  An identity fixes its content kind, whether it comes *)
(* from the font rasterizer (Text) or an external one (Custom), and the    *)
(* dimensions of its bitmap: a glyph that fills the initial plane, one     *)
(* that fills half of it, an empty glyph, one wider than the largest       *)
(* texture, and a color glyph.                                             *)
GlyphTable ==
    << [kind |-> "Mask",  custom |-> TRUE,  width |-> 256,   height |-> 256],
       [kind |-> "Mask",  custom |-> FALSE, width |-> 256,   height |-> 128],
       [kind |-> "Mask",  custom |-> FALSE, width |-> 0,     height |-> 64],
       [kind |-> "Mask",  custom |-> TRUE,  width |-> 16385, height |-> 64],
       [kind |-> "Color", custom |-> FALSE, width |-> 256,   height |-> 256],
       [kind |-> "Mask",  custom |-> TRUE,  width |-> 256,   height |-> 256],
       [kind |-> "Color", custom |-> FALSE, width |-> 256,   height |-> 128] >>

Keys == 1..NumKeys

(* The equal glyphs of the run that fills a plane: 32 by 32 mask glyphs    *)
(* of the font rasterizer, as many as fill a fresh plane (FirstBatch) and  *)
(* SecondBatch more                                                        *)
ScenarioGlyph == [kind |-> "Mask", custom |-> FALSE, width |-> 32, height |-> 32]

FirstBatch ==
    (INITIAL_SIZE \div ScenarioGlyph.width) * (INITIAL_SIZE \div ScenarioGlyph.height)

FirstKeys == (Len(GlyphTable) + 1)..(Len(GlyphTable) + FirstBatch)

SecondKeys ==
    (Len(GlyphTable) + FirstBatch + 1)..(Len(GlyphTable) + FirstBatch + SecondBatch)

ScenarioKeys == FirstKeys \cup SecondKeys

Glyph(key) ==
    IF key \in ScenarioKeys
    THEN ScenarioGlyph
    ELSE GlyphTable[((key - 1) % Len(GlyphTable)) + 1]

KindOf(key) == Glyph(key).kind

IsCustom(key) == Glyph(key).custom

WidthOf(key) == Glyph(key).width

HeightOf(key) == Glyph(key).height

-----------------------------------------------------------------------------
(* Rectangles *)

Overlap(a, b) ==
    /\ a.x < b.x + b.width
    /\ b.x < a.x + a.width
    /\ a.y < b.y + b.height
    /\ b.y < a.y + a.height

Inside(a, side) ==
    /\ 0 <= a.x
    /\ 0 <= a.y
    /\ a.x + a.width <= side
    /\ a.y + a.height <= side

-----------------------------------------------------------------------------
(* The rectangle packer (etagere's BucketedAtlasAllocator), by its         *)
(* contract: allocate grants a free rectangle of the asked size or none,   *)
(* deallocate frees one region, grow extends the space and moves nothing.  *)
(* The granted rectangle is the lowest, then leftmost, free corner.        *)

NewPacker(side) == [size |-> side, allocations |-> {}]

Corners(pk) ==
    {<<x, y>> : x \in {0} \cup {a.x + a.width : a \in pk.allocations},
                y \in {0} \cup {a.y + a.height : a \in pk.allocations}}

Rect(c, width, height) ==
    [id |-> c, x |-> c[1], y |-> c[2], width |-> width, height |-> height]

FreeRects(pk, width, height) ==
    {r \in {Rect(c, width, height) : c \in Corners(pk)} :
        /\ Inside(r, pk.size)
        /\ \A a \in pk.allocations : ~Overlap(a, r)}

PackerAllocate(pk, width, height) ==
    LET free == FreeRects(pk, width, height)
    IN  IF width <= 0 \/ height <= 0 \/ free = {}
        THEN None
        ELSE Some(CHOOSE r \in free :
                    \A q \in free :
                        \/ r.y < q.y
                        \/ (r.y = q.y /\ r.x <= q.x))

PackerInsert(pk, allocation) ==
    [pk EXCEPT !.allocations = @ \cup {allocation}]

(* A deallocate that gives nothing back *)
PackerDeallocateLeaks(pk, id) == pk

PackerDeallocate(pk, id) ==
    [pk EXCEPT !.allocations = {a \in @ : a.id # id}]

PackerGrow(pk, new_size) == [pk EXCEPT !.size = new_size]

-----------------------------------------------------------------------------
(* The texture: a square of the given side.  The atlas only ever writes   *)
(* into it; every write is an upload of one glyph's bitmap into a region.  *)

NewTexture(side) == [size |-> side]

Region(key, x, y, width, height) ==
    [key |-> key, x |-> x, y |-> y, width |-> width, height |-> height]

-----------------------------------------------------------------------------
(* The LRU glyph cache: a sequence of GlyphDetails, least recent first *)

InAtlas(x, y) == [status |-> "InAtlas", x |-> x, y |-> y]

SkipRasterization == [status |-> "SkipRasterization", x |-> 0, y |-> 0]

GlyphDetails(key, atlas_id, gpu_cache, width, height) ==
    [key |-> key, atlas_id |-> atlas_id, gpu_cache |-> gpu_cache,
     width |-> width, height |-> height]

CacheKeys(cache) == {cache[i].key : i \in 1..Len(cache)}

KeySeq(cache) == [i \in 1..Len(cache) |-> cache[i].key]

Entry(cache, key) == cache[CHOOSE i \in 1..Len(cache) : cache[i].key = key]

CacheWithout(cache, key) == SelectSeq(cache, LAMBDA e : e.key # key)

Reverse(s) == [i \in 1..Len(s) |-> s[Len(s) + 1 - i]]

(* A pop of the oldest entry that leaves the rest in the reverse order *)
pop_lru_reversing(cache) ==
    [value |-> Head(cache), glyph_cache |-> Reverse(Tail(cache))]

(* LruCache::peek_lru and LruCache::pop_lru on a cache that is not empty *)
peek_lru(cache) == Head(cache)

pop_lru(cache) == [value |-> Head(cache), glyph_cache |-> Tail(cache)]

(* The Placement of a cached glyph: its rectangle, or none *)
Placement(e) ==
    IF e.gpu_cache.status = "InAtlas"
    THEN Some([x |-> e.gpu_cache.x, y |-> e.gpu_cache.y,
               width |-> e.width, height |-> e.height])
    ELSE None

-----------------------------------------------------------------------------
(* One plane, as the record the methods of InnerAtlas work on *)

Atlas(k) ==
    [kind |-> k, texture |-> texture[k], packer |-> packer[k], size |-> size[k],
     glyph_cache |-> glyph_cache[k], glyphs_in_use |-> glyphs_in_use[k]]

NewAtlas(k) ==
    [kind |-> k, texture |-> NewTexture(INITIAL_SIZE),
     packer |-> NewPacker(INITIAL_SIZE), size |-> INITIAL_SIZE,
     glyph_cache |-> <<>>, glyphs_in_use |-> {}]

-----------------------------------------------------------------------------
(* InnerAtlas::try_allocate *)

(* size2 with its arguments exchanged *)
size2Swapped(width, height) == [width |-> height, height |-> width]

(* size2 with a pixel of padding added to each side *)
size2Padded(width, height) == [width |-> width + 1, height |-> height + 1]

(* size2(width as i32, height as i32) *)
size2(width, height) == [width |-> width, height |-> height]

(* The test of glyphs_in_use left out: nothing stops the eviction *)
InUseNever(in_use, key) == FALSE

(* glyphs_in_use.contains(key): the test that stops the eviction *)
InUse(in_use, key) == key \in in_use

(* The inner loop as it would be if it gave up at an entry without a      *)
(* region, in use or not, instead of popping it                            *)
FindSizedStops(cache, in_use, popped) ==
    IF cache = <<>>
    THEN [stop |-> TRUE, glyph_cache |-> cache, popped |-> popped]
    ELSE [stop |-> peek_lru(cache).atlas_id = None,
          glyph_cache |-> cache, popped |-> popped]

(* The inner loop as it would be if it popped an entry without a region   *)
(* whether the glyph is in use or not                                      *)
RECURSIVE FindSizedPopsInUse(_, _, _)
FindSizedPopsInUse(cache, in_use, popped) ==
    IF cache = <<>>
    THEN [stop |-> TRUE, glyph_cache |-> cache, popped |-> popped]
    ELSE IF peek_lru(cache).atlas_id # None
    THEN [stop |-> FALSE, glyph_cache |-> cache, popped |-> popped]
    ELSE FindSizedPopsInUse(pop_lru(cache).glyph_cache, in_use,
                            Append(popped, pop_lru(cache).value))

(* The inner while loop: pop entries without a region from the least      *)
(* recently used end until a sized entry is the oldest.  stop is TRUE when *)
(* try_allocate returns None from inside the loop: the cache ran empty     *)
(* (peek_lru()?) or an entry without a region is in use.                   *)
RECURSIVE FindSized(_, _, _)
FindSized(cache, in_use, popped) ==
    IF cache = <<>>
    THEN [stop |-> TRUE, glyph_cache |-> cache, popped |-> popped]
    ELSE IF peek_lru(cache).atlas_id # None
    THEN [stop |-> FALSE, glyph_cache |-> cache, popped |-> popped]
    ELSE IF InUse(in_use, peek_lru(cache).key)
    THEN [stop |-> TRUE, glyph_cache |-> cache, popped |-> popped]
    ELSE FindSized(pop_lru(cache).glyph_cache, in_use,
                   Append(popped, pop_lru(cache).value))

(* The region given back when a sized entry is evicted *)
EvictedRegion(value) == value.atlas_id[1]

(* The outer loop.  evicted lists the popped entries in order, freed the   *)
(* region ids deallocated, attempts counts the calls of packer.allocate,   *)
(* peeks the calls of glyph_cache.peek_lru: one on entering the inner     *)
(* loop and one after each pop inside it.                                  *)
RECURSIVE TryAllocateLoop(_, _, _, _, _)
TryAllocateLoop(pk, cache, in_use, wanted, acc) ==
    LET allocation == PackerAllocate(pk, wanted.width, wanted.height)
        tried == [acc EXCEPT !.attempts = @ + 1]
    IN  IF allocation # None
        THEN [allocation |-> allocation,
              packer |-> PackerInsert(pk, allocation[1]),
              glyph_cache |-> cache,
              evicted |-> tried.evicted, freed |-> tried.freed,
              attempts |-> tried.attempts, peeks |-> tried.peeks]
        ELSE LET scan == FindSized(cache, in_use, <<>>)
                 seen == [tried EXCEPT !.evicted = @ \o scan.popped,
                                       !.peeks = @ + Len(scan.popped) + 1]
             IN  IF scan.stop \/ InUse(in_use, peek_lru(scan.glyph_cache).key)
                 THEN [allocation |-> None,
                       packer |-> pk,
                       glyph_cache |-> scan.glyph_cache,
                       evicted |-> seen.evicted, freed |-> seen.freed,
                       attempts |-> seen.attempts, peeks |-> seen.peeks]
                 ELSE LET popped == pop_lru(scan.glyph_cache)
                          value == popped.value
                      IN  TryAllocateLoop(
                              PackerDeallocate(pk, EvictedRegion(value)),
                              popped.glyph_cache, in_use, wanted,
                              [seen EXCEPT !.evicted = Append(@, value),
                                           !.freed = Append(@, EvictedRegion(value))])

(* A try_allocate that evicts the least recently used entry, when it is   *)
(* sized and not in use, before it calls packer.allocate at all            *)
try_allocate_eager(atlas, width, height) ==
    LET cache == atlas.glyph_cache
        start == [evicted |-> <<>>, freed |-> <<>>, attempts |-> 0, peeks |-> 0]
    IN  IF /\ cache # <<>>
           /\ peek_lru(cache).atlas_id # None
           /\ ~ InUse(atlas.glyphs_in_use, peek_lru(cache).key)
        THEN TryAllocateLoop(
                 PackerDeallocate(atlas.packer, EvictedRegion(peek_lru(cache))),
                 pop_lru(cache).glyph_cache, atlas.glyphs_in_use,
                 size2(width, height),
                 [start EXCEPT !.evicted = <<peek_lru(cache)>>,
                               !.freed = <<EvictedRegion(peek_lru(cache))>>,
                               !.peeks = 1])
        ELSE TryAllocateLoop(atlas.packer, cache, atlas.glyphs_in_use,
                             size2(width, height), start)

(* A try_allocate that puts back what it evicted when it fails *)
try_allocate_rollback(atlas, width, height) ==
    LET got == TryAllocateLoop(atlas.packer, atlas.glyph_cache,
                               atlas.glyphs_in_use, size2(width, height),
                               [evicted |-> <<>>, freed |-> <<>>,
                                attempts |-> 0, peeks |-> 0])
    IN  IF got.allocation = None
        THEN [got EXCEPT !.packer = atlas.packer,
                         !.glyph_cache = atlas.glyph_cache]
        ELSE got

(* A try_allocate that runs its loop a second time when the first run     *)
(* ended without a region                                                  *)
try_allocate_retries(atlas, width, height) ==
    LET first == TryAllocateLoop(atlas.packer, atlas.glyph_cache,
                                 atlas.glyphs_in_use, size2(width, height),
                                 [evicted |-> <<>>, freed |-> <<>>,
                                  attempts |-> 0, peeks |-> 0])
    IN  IF first.allocation # None
        THEN first
        ELSE TryAllocateLoop(first.packer, first.glyph_cache,
                             atlas.glyphs_in_use, size2(width, height),
                             [evicted |-> first.evicted, freed |-> first.freed,
                              attempts |-> first.attempts, peeks |-> first.peeks])

try_allocate(atlas, width, height) ==
    TryAllocateLoop(atlas.packer, atlas.glyph_cache, atlas.glyphs_in_use,
                    size2(width, height),
                    [evicted |-> <<>>, freed |-> <<>>, attempts |-> 0, peeks |-> 0])

-----------------------------------------------------------------------------
(* InnerAtlas::grow *)

(* What the external rasterizer may answer when it is asked again *)
RasterAnswers == {"ok", "none", "mismatch"}

(* The test of the maximum with > for >=, and with the doubled side *)
AtMaximumStrict(s) == s > MAX_TEXTURE_DIMENSION_2D

AtMaximumEarly(s) == s * GROWTH_FACTOR >= MAX_TEXTURE_DIMENSION_2D

AtMaximum(s) == s >= MAX_TEXTURE_DIMENSION_2D

NewSize(s) == Min(s * GROWTH_FACTOR, MAX_TEXTURE_DIMENSION_2D)

(* A grow that leaves the packer at its old side *)
GrownPackerKeepsSide(pk, new_size) == pk

(* A packer made anew at the new size, forgetting the live regions *)
GrownPackerReset(pk, new_size) == NewPacker(new_size)

(* self.packer.grow(size2(new_size, new_size)) *)
GrownPacker(pk, new_size) == PackerGrow(pk, new_size)

(* The cache in the order the re-upload loop visits it: most recent first *)
IterOrder(cache) == Reverse(cache)

(* The request the external rasterizer gets for a cached glyph, with the   *)
(* scale it is given, or the glyph the font rasterizer is asked for (its   *)
(* key alone)                                                              *)
RasterInput(cache_key, scale) ==
    [source |-> IF IsCustom(cache_key) THEN "custom" ELSE "font",
     id |-> cache_key, width |-> WidthOf(cache_key), height |-> HeightOf(cache_key),
     scale |-> IF IsCustom(cache_key) THEN scale ELSE 0]

(* The upload region with x and y exchanged *)
UploadRegionSwapped(cache_key, glyph) ==
    Region(cache_key, glyph.gpu_cache.y, glyph.gpu_cache.x,
           WidthOf(cache_key), HeightOf(cache_key))

(* The region of the new texture a cached glyph is uploaded into *)
UploadRegion(cache_key, glyph) ==
    Region(cache_key, glyph.gpu_cache.x, glyph.gpu_cache.y,
           WidthOf(cache_key), HeightOf(cache_key))

(* RasterizedCustomGlyph::validate: the bitmap has the dimensions asked    *)
(* for and the content type of the plane                                   *)
validate(raster) == raster # "mismatch"

(* The re-upload loop as it would be if it took any answer of the external *)
(* rasterizer, skipping the glyph when there is none                       *)
ReuploadLenient(entries, scale, raster, log) ==
    LET placed == SelectSeq(entries,
                            LAMBDA glyph : glyph.gpu_cache.status # "SkipRasterization")
    IN  [panic |-> FALSE,
         rasterized |-> log.rasterized \o
                        [i \in 1..Len(placed) |-> RasterInput(placed[i].key, scale)],
         uploads |-> log.uploads \o
                     [i \in 1..Len(placed) |-> UploadRegion(placed[i].key, placed[i])]]

(* The re-upload loop.  An entry without a region is skipped; a Text glyph *)
(* is rasterized again by the font rasterizer; a Custom glyph by the       *)
(* external one, whose answer none or a mismatching bitmap panics.  The    *)
(* loop stops at the first entry that panics: that entry is asked for and  *)
(* not uploaded, the entries before it are asked for and uploaded.         *)
Reupload(entries, scale, raster, log) ==
    LET placed == SelectSeq(entries,
                            LAMBDA glyph : glyph.gpu_cache.status # "SkipRasterization")
        refused == {i \in 1..Len(placed) :
                        /\ IsCustom(placed[i].key)
                        /\ (raster = "none" \/ ~validate(raster))}
        last == IF refused = {} THEN Len(placed)
                ELSE CHOOSE i \in refused : \A j \in refused : i <= j
        done == IF refused = {} THEN last ELSE last - 1
    IN  [panic |-> refused # {},
         rasterized |-> log.rasterized \o
                        [i \in 1..last |-> RasterInput(placed[i].key, scale)],
         uploads |-> log.uploads \o
                     [i \in 1..done |-> UploadRegion(placed[i].key, placed[i])]]

(* A grow that tests the maximum only after the re-upload loop has run *)
grow_checks_late(atlas, scale, raster) ==
    LET new_size == NewSize(atlas.size)
        up == Reupload(IterOrder(atlas.glyph_cache), scale, raster,
                       [rasterized |-> <<>>, uploads |-> <<>>])
        grown == [atlas EXCEPT !.packer = GrownPacker(@, new_size),
                               !.texture = NewTexture(new_size)]
    IN  IF up.panic
        THEN [ret |-> "panic", atlas |-> grown,
              rasterized |-> up.rasterized, uploads |-> up.uploads]
        ELSE IF AtMaximum(atlas.size)
        THEN [ret |-> "false", atlas |-> atlas,
              rasterized |-> up.rasterized, uploads |-> up.uploads]
        ELSE [ret |-> "true", atlas |-> [grown EXCEPT !.size = new_size],
              rasterized |-> up.rasterized, uploads |-> up.uploads]

grow(atlas, scale, raster) ==
    IF AtMaximum(atlas.size)
    THEN [ret |-> "false", atlas |-> atlas, rasterized |-> <<>>, uploads |-> <<>>]
    ELSE LET new_size == NewSize(atlas.size)
             up == Reupload(IterOrder(atlas.glyph_cache), scale, raster,
                            [rasterized |-> <<>>, uploads |-> <<>>])
             grown == [atlas EXCEPT !.packer = GrownPacker(@, new_size),
                                    !.texture = NewTexture(new_size)]
         IN  IF up.panic
             THEN [ret |-> "panic", atlas |-> grown,
                   rasterized |-> up.rasterized, uploads |-> up.uploads]
             ELSE [ret |-> "true", atlas |-> [grown EXCEPT !.size = new_size],
                   rasterized |-> up.rasterized, uploads |-> up.uploads]

-----------------------------------------------------------------------------
(* InnerAtlas::trim *)

(* A trim that also empties the glyph cache *)
trimForgets(atlas) == [atlas EXCEPT !.glyphs_in_use = {}, !.glyph_cache = <<>>]

(* A trim that clears nothing *)
trimKeeps(atlas) == atlas

(* A trim that also drops the least recently used entry of the cache *)
trimPops(atlas) ==
    [atlas EXCEPT !.glyphs_in_use = {},
                  !.glyph_cache = IF @ = <<>> THEN @ ELSE Tail(@)]

trim(atlas) == [atlas EXCEPT !.glyphs_in_use = {}]

-----------------------------------------------------------------------------
(* Cache: the pipeline states the renderers share *)

(* Bound of the model: the renderers that share one Cache *)
NumRenderers == 2

(* Bound of the model: the pipelines the compiler is let to create *)
MaxCreated == 4

Renderers == 1..NumRenderers

(* The pixel formats of the atlases that share the Cache *)
Formats == {"BGRA8Unorm", "RGBA8Unorm"}

(* The multisample counts the renderers are created with *)
SampleCounts == {1, 4}

(* A renderer that has not called get_or_create_pipeline yet.  A renderer *)
(* keeps the key of its last call (format, sample_count) and what the call *)
(* returned (ret).                                                         *)
Outside == [pc |-> "idle", format |-> "", sample_count |-> 0, ret |-> None]

(* Cache::new: no pipeline yet *)
NewCache == <<>>

(* The pipeline the compiler creates from pipeline_descriptor once the     *)
(* pixel format of its colour attachment is set.  The descriptor is given  *)
(* no sample count, here or in Cache::new.                                 *)
NewPipeline(id, format) ==
    [id |-> id, format |-> format, sample_count |-> None]

(* cache.iter().find(|(fmt, _)| fmt == &format).map(|(_, p)| p.clone()) *)
FindPipeline(cache, format) ==
    LET hits == SelectSeq(cache, LAMBDA e : e.format = format)
    IN  IF hits = <<>> THEN None ELSE Some(Head(hits).pipeline)

(* A lock that lets every caller in *)
MutexAlwaysFree(holder) == TRUE

(* cache.lock() returns when no other caller holds the guard *)
MutexFree(holder) == holder = 0

-----------------------------------------------------------------------------
(* The state machine *)

(* What a step leaves in out: the method that ran (op) for which plane and *)
(* key, what it returned (ret), what ensure_resident returned if it        *)
(* returned in this step (result, with the placement), what the step      *)
(* evicted, deallocated, tried, peeked, asked of the rasterizers and       *)
(* uploaded, and what                                                      *)
(* the external rasterizer answered if a grow asked it.                    *)
Out(op, kind, key, ret, result) ==
    [op |-> op, kind |-> kind, key |-> key, ret |-> ret, result |-> result,
     placement |-> None, evicted |-> <<>>, freed |-> <<>>, attempts |-> 0,
     peeks |-> 0,
     rasterized |-> <<>>, uploads |-> <<>>, answer |-> ""]

Init ==
    /\ size = [k \in Kinds |-> NewAtlas(k).size]
    /\ packer = [k \in Kinds |-> NewAtlas(k).packer]
    /\ texture = [k \in Kinds |-> NewAtlas(k).texture]
    /\ glyph_cache = [k \in Kinds |-> NewAtlas(k).glyph_cache]
    /\ glyphs_in_use = [k \in Kinds |-> NewAtlas(k).glyphs_in_use]
    /\ pc = "idle"
    /\ req = 0
    /\ scale_factor = 0
    /\ access = [k \in Kinds |-> <<>>]
    /\ origin = {}
    /\ out = Out("new", "Mask", 0, "unit", "")
    /\ pending = <<>>
    /\ pipeline_cache = NewCache
    /\ lock = 0
    /\ renderer = [r \in Renderers |-> Outside]
    /\ created = <<>>

(* The lookup of the plane with the mask plane for every content type *)
inner_always_mask(content_type) == "Mask"

(* TextAtlas::inner_for_content_mut: the plane of a content type *)
inner_for_content_mut(content_type) ==
    IF content_type = "Color" THEN "Color" ELSE "Mask"

(* A grow whose re-upload loop looks every entry up with a promoting get,  *)
(* which leaves the cache in the reverse order                             *)
TextAtlasGrowReorders(content_type, scale, raster) ==
    LET g == grow(Atlas(content_type), scale, raster)
    IN  [g EXCEPT !.atlas.glyph_cache = Reverse(@)]

(* A grow that removes the entries it does not upload *)
TextAtlasGrowDrops(content_type, scale, raster) ==
    LET g == grow(Atlas(content_type), scale, raster)
    IN  [g EXCEPT !.atlas.glyph_cache =
            SelectSeq(@, LAMBDA e : e.gpu_cache.status = "InAtlas")]

(* TextAtlas::grow: grow the plane of the content type *)
TextAtlasGrow(content_type, scale, raster) ==
    IF content_type = "Mask"
    THEN grow(Atlas("Mask"), scale, raster)
    ELSE grow(Atlas("Color"), scale, raster)

(* Write back plane k from the record a method left.  accessed is the key  *)
(* this step accessed (0: none) in a request of the given scale; access    *)
(* keeps the cached keys in the order of their last access, origin the     *)
(* scale of the request that cached each key.                              *)
Store(k, atlas, accessed, scale) ==
    /\ size' = [size EXCEPT ![k] = atlas.size]
    /\ packer' = [packer EXCEPT ![k] = atlas.packer]
    /\ texture' = [texture EXCEPT ![k] = atlas.texture]
    /\ glyph_cache' = [glyph_cache EXCEPT ![k] = atlas.glyph_cache]
    /\ glyphs_in_use' = [glyphs_in_use EXCEPT ![k] = atlas.glyphs_in_use]
    /\ access' = [access EXCEPT ![k] =
                    SelectSeq(@, LAMBDA other :
                        /\ other # accessed
                        /\ other \in CacheKeys(atlas.glyph_cache))
                    \o (IF accessed = 0 THEN <<>> ELSE <<accessed>>)]
    /\ origin' = {p \in origin : \/ p[1] \notin CacheKeys(glyph_cache[k])
                                 \/ p[1] \in CacheKeys(atlas.glyph_cache)}
                 \cup (IF accessed # 0 /\ accessed \notin CacheKeys(glyph_cache[k])
                       THEN {<<accessed, scale>>} ELSE {})

(* A hit that reads the entry without promoting it *)
PromoteNot(cache, key) == cache

(* A cache hit promotes the entry to most recently used *)
Promote(cache, key) == Append(CacheWithout(cache, key), Entry(cache, key))

(* The test of no area with "and" for "or" *)
ZeroAreaBoth(width, height) == width = 0 /\ height = 0

(* A request of no area: width == 0 or height == 0 *)
ZeroArea(width, height) == width = 0 \/ height = 0

(* ensure_resident, steps 1 and 2, and the entry into step 3 *)
Request(key, scale) ==
    /\ pc = "idle"
    /\ LET k == inner_for_content_mut(KindOf(key))
           atlas == Atlas(k)
       IN  IF key \in CacheKeys(atlas.glyph_cache)
           THEN /\ Store(k, [atlas EXCEPT !.glyph_cache = Promote(@, key),
                                          !.glyphs_in_use = @ \cup {key}], key, scale)
                /\ out' = [Out("ensure_resident", k, key, "hit", "Placement") EXCEPT
                             !.placement = Placement(Entry(atlas.glyph_cache, key))]
                /\ UNCHANGED <<pc, req, scale_factor>>
           ELSE IF ZeroArea(WidthOf(key), HeightOf(key))
           THEN /\ Store(k, [atlas EXCEPT
                               !.glyph_cache = Append(@,
                                   GlyphDetails(key, None, SkipRasterization,
                                                WidthOf(key), HeightOf(key))),
                               !.glyphs_in_use = @ \cup {key}], key, scale)
                /\ out' = Out("ensure_resident", k, key, "zero", "Placement")
                /\ UNCHANGED <<pc, req, scale_factor>>
           ELSE /\ pc' = "allocate"
                /\ req' = key
                /\ scale_factor' = scale
                /\ out' = Out("ensure_resident", k, key, "miss", "")
                /\ UNCHANGED <<size, packer, texture, glyph_cache, glyphs_in_use,
                               access, origin>>
    /\ UNCHANGED beside

(* ensure_resident, steps 3, 4 and 6: try_allocate, and on success the     *)
(* rasterization, the upload and the new most recently used entry          *)
TryAllocate ==
    /\ pc = "allocate"
    /\ LET key == req
           k == inner_for_content_mut(KindOf(key))
           atlas == Atlas(k)
           got == try_allocate(atlas, WidthOf(key), HeightOf(key))
           after == [atlas EXCEPT !.packer = got.packer,
                                  !.glyph_cache = got.glyph_cache]
           log == [Out("try_allocate", k, key, "None", "") EXCEPT
                     !.evicted = got.evicted, !.freed = got.freed,
                     !.attempts = got.attempts, !.peeks = got.peeks]
       IN  IF got.allocation = None
           THEN /\ Store(k, after, 0, 0)
                /\ pc' = "grow"
                /\ req' = key
                /\ scale_factor' = scale_factor
                /\ out' = log
           ELSE LET a == got.allocation[1]
                    details == GlyphDetails(key, Some(a.id), InAtlas(a.x, a.y),
                                            WidthOf(key), HeightOf(key))
                IN  /\ Store(k, [after EXCEPT
                                   !.glyph_cache = Append(@, details),
                                   !.glyphs_in_use = @ \cup {key}], key, scale_factor)
                    /\ pc' = "idle"
                    /\ req' = 0
                    /\ scale_factor' = 0
                    /\ out' = [log EXCEPT
                                 !.ret = "Some",
                                 !.result = "Placement",
                                 !.placement = Placement(details),
                                 !.rasterized = <<RasterInput(key, scale_factor)>>,
                                 !.uploads = <<UploadRegion(key, details)>>]
    /\ UNCHANGED beside

(* ensure_resident, step 5: after an exhaustion grow the plane and retry,  *)
(* or report that the atlas is at its maximum size                         *)
GrowRetry ==
    /\ pc = "grow"
    /\ \E raster \in RasterAnswers :
        LET key == req
            k == inner_for_content_mut(KindOf(key))
            g == TextAtlasGrow(KindOf(key), scale_factor, raster)
        IN  /\ Store(g.atlas.kind, g.atlas, 0, 0)
            /\ pc' = CASE g.ret = "true" -> "allocate"
                       [] g.ret = "false" -> "idle"
                       [] OTHER -> "aborted"
            /\ req' = IF g.ret = "true" THEN key ELSE 0
            /\ scale_factor' = IF g.ret = "true" THEN scale_factor ELSE 0
            /\ out' = [Out("grow", k, key, g.ret,
                           IF g.ret = "false" THEN "AtlasAtMaximumSize" ELSE "") EXCEPT
                         !.rasterized = g.rasterized, !.uploads = g.uploads,
                         !.answer = IF \E i \in 1..Len(g.rasterized) :
                                          g.rasterized[i].source = "custom"
                                    THEN raster ELSE ""]
    /\ UNCHANGED beside

(* TextAtlas::trim on both planes, written back *)
TrimPlanes ==
    /\ LET mask_atlas == trim(Atlas("Mask"))
           color_atlas == trim(Atlas("Color"))
           trimmed == [k \in Kinds |-> IF k = "Mask" THEN mask_atlas ELSE color_atlas]
       IN  /\ size' = [k \in Kinds |-> trimmed[k].size]
           /\ packer' = [k \in Kinds |-> trimmed[k].packer]
           /\ texture' = [k \in Kinds |-> trimmed[k].texture]
           /\ glyph_cache' = [k \in Kinds |-> trimmed[k].glyph_cache]
           /\ glyphs_in_use' = [k \in Kinds |-> trimmed[k].glyphs_in_use]
           /\ access' = [k \in Kinds |->
                           SelectSeq(access[k], LAMBDA other :
                               other \in CacheKeys(trimmed[k].glyph_cache))]
           /\ origin' = {p \in origin : \E k \in Kinds :
                                           p[1] \in CacheKeys(trimmed[k].glyph_cache)}
    /\ out' = Out("trim", "Mask", 0, "unit", "")
    /\ UNCHANGED <<pc, req, scale_factor>>

(* TextAtlas::trim *)
Trim ==
    /\ pc = "idle"
    /\ TrimPlanes
    /\ UNCHANGED beside

Next ==
    \/ \E key \in Keys : \E scale \in {Head(Scales)} : Request(key, scale)
    \/ TryAllocate
    \/ GrowRetry
    \/ Trim

Spec == Init /\ [][Next]_vars

(* The run that fills a plane: with no trim in between, the FirstBatch     *)
(* glyphs are requested one after the other, then any one of the          *)
(* SecondBatch glyphs, then the others of them one after the other.        *)
ScenarioRequest ==
    LET cached == CacheKeys(glyph_cache["Mask"])
    IN  \E key \in ScenarioKeys \ cached :
            /\ \/ /\ key \in FirstKeys
                  /\ \A other \in FirstKeys : other < key => other \in cached
               \/ /\ key \in SecondKeys
                  /\ FirstKeys \subseteq cached
                  /\ \/ SecondKeys \cap cached = {}
                     \/ \A other \in SecondKeys \ cached : key <= other
            /\ Request(key, Head(Scales))

ScenarioNext ==
    \/ ScenarioRequest
    \/ TryAllocate
    \/ GrowRetry

ScenarioSpec == Init /\ [][ScenarioNext]_vars

(* Requests of either scale on the mask plane, for the Custom glyph that   *)
(* fills the initial plane, the Text glyph that fills half of it and the   *)
(* Custom glyph wider than the largest texture                             *)
ScaleKeys == {1, 2, 4}

ScaleRequest ==
    \E key \in ScaleKeys : \E i \in 1..Len(Scales) : Request(key, Scales[i])

ScaleNext ==
    \/ ScaleRequest
    \/ TryAllocate
    \/ GrowRetry
    \/ Trim

ScaleSpec == Init /\ [][ScaleNext]_vars

(* Requests on both planes: on each the glyph that fills the initial      *)
(* plane and the one that fills half of it                                 *)
RouteKeys == {1, 2, 5, 7}

RouteRequest ==
    \E key \in RouteKeys : Request(key, Head(Scales))

RouteNext ==
    \/ RouteRequest
    \/ TryAllocate
    \/ GrowRetry
    \/ Trim

RouteSpec == Init /\ [][RouteNext]_vars

Positions == {"idle", "allocate", "grow", "aborted"}

(* A step of a call of ensure_resident in progress.  In the positions      *)
(* allocate and grow the steps TryAllocate and GrowRetry are the only ones *)
(* enabled, they always are, and each of them moves pc.                    *)
Running ==
    /\ pc \in {"allocate", "grow"}
    /\ pc' \in Positions \ {pc}

(* ensure_resident is sequential code: once called it runs to its end, so  *)
(* the steps of a call in progress are taken                               *)
FairSpec == Spec /\ WF_pc(Running)

(* What the atlas and its frame loop hold *)
atlasVars == <<size, packer, texture, glyph_cache, glyphs_in_use, pc, req,
               scale_factor, access, origin, out, pending>>

(* TextAtlas::get_or_create_pipeline called by a renderer: the format of   *)
(* its atlas and its sample count are handed to the Cache                  *)
Call(r, format, sample_count) ==
    /\ renderer[r].pc = "idle"
    /\ renderer' = [renderer EXCEPT ![r] =
            [pc |-> "lock", format |-> format, sample_count |-> sample_count,
             ret |-> None]]
    /\ UNCHANGED <<pipeline_cache, lock, created>>
    /\ UNCHANGED atlasVars

(* let mut cache = cache.lock() *)
Lock(r) ==
    /\ renderer[r].pc = "lock"
    /\ MutexFree(lock)
    /\ lock' = r
    /\ renderer' = [renderer EXCEPT ![r].pc = "find"]
    /\ UNCHANGED <<pipeline_cache, created>>
    /\ UNCHANGED atlasVars

(* The search of the list: a hit is returned, a miss goes on to create *)
Find(r) ==
    /\ renderer[r].pc = "find"
    /\ LET hit == FindPipeline(pipeline_cache, renderer[r].format)
       IN  renderer' = [renderer EXCEPT
                          ![r].pc = IF hit = None THEN "create" ELSE "unlock",
                          ![r].ret = hit]
    /\ UNCHANGED <<pipeline_cache, lock, created>>
    /\ UNCHANGED atlasVars

(* attachment.setPixelFormat(format) and the call of the compiler *)
Create(r) ==
    /\ renderer[r].pc = "create"
    /\ Len(created) < MaxCreated
    /\ LET pipeline == NewPipeline(Len(created) + 1, renderer[r].format)
       IN  /\ created' = Append(created, pipeline)
           /\ renderer' = [renderer EXCEPT ![r].pc = "push",
                                           ![r].ret = Some(pipeline)]
    /\ UNCHANGED <<pipeline_cache, lock>>
    /\ UNCHANGED atlasVars

(* cache.push((format, pipeline.clone())) *)
Push(r) ==
    /\ renderer[r].pc = "push"
    /\ pipeline_cache' = Append(pipeline_cache,
            [format |-> renderer[r].format, pipeline |-> renderer[r].ret[1]])
    /\ renderer' = [renderer EXCEPT ![r].pc = "unlock"]
    /\ UNCHANGED <<lock, created>>
    /\ UNCHANGED atlasVars

(* The guard is dropped as the method returns *)
Unlock(r) ==
    /\ renderer[r].pc = "unlock"
    /\ lock' = 0
    /\ renderer' = [renderer EXCEPT ![r].pc = "idle"]
    /\ UNCHANGED <<pipeline_cache, created>>
    /\ UNCHANGED atlasVars

PipelineNext ==
    \/ \E r \in Renderers : \E format \in Formats :
           \E sample_count \in SampleCounts : Call(r, format, sample_count)
    \/ \E r \in Renderers : Lock(r)
    \/ \E r \in Renderers : Find(r)
    \/ \E r \in Renderers : Create(r)
    \/ \E r \in Renderers : Push(r)
    \/ \E r \in Renderers : Unlock(r)

PipelineSpec == Init /\ [][PipelineNext]_vars

(* Bound of the model: the frames the device may be behind *)
MaxInFlight == 2

(* The glyphs of the frame loop: the one that fills the initial mask plane *)
(* and the one that fills half of it                                       *)
FrameKeys == {1, 2}

(* What the draw commands of the frame read: the texture of the plane and  *)
(* the coordinates of each sized glyph prepared for the frame              *)
Reads(k) ==
    {[kind |-> k, texture |-> texture[k], key |-> glyph_cache[k][i].key,
      rect |-> Placement(glyph_cache[k][i])[1]] :
        i \in {j \in 1..Len(glyph_cache[k]) :
                  /\ glyph_cache[k][j].gpu_cache.status = "InAtlas"
                  /\ glyph_cache[k][j].key \in glyphs_in_use[k]}}

(* The end of RedrawRequested: the draws are encoded, the command buffer   *)
(* is committed, and atlas.trim() is called without waiting for the device *)
EndFrame ==
    /\ pc = "idle"
    /\ Len(pending) < MaxInFlight
    /\ pending' = Append(pending, Reads("Mask") \cup Reads("Color"))
    /\ TrimPlanes
    /\ UNCHANGED <<pipeline_cache, lock, renderer, created>>

(* The device finishes the oldest frame in flight *)
Consume ==
    /\ pending # <<>>
    /\ pending' = Tail(pending)
    /\ out' = Out("consume", "Mask", 0, "unit", "")
    /\ UNCHANGED <<size, packer, texture, glyph_cache, glyphs_in_use, pc, req,
                   scale_factor, access, origin>>
    /\ UNCHANGED <<pipeline_cache, lock, renderer, created>>

FrameNext ==
    \/ \E key \in FrameKeys : Request(key, Head(Scales))
    \/ TryAllocate
    \/ GrowRetry
    \/ EndFrame
    \/ Consume

FrameSpec == Init /\ [][FrameNext]_vars

-----------------------------------------------------------------------------
(* Properties *)

SizedEntries(cache) ==
    {i \in 1..Len(cache) : cache[i].gpu_cache.status = "InAtlas"}

(* The rectangle of a sized entry *)
PlacementRect(e) == Placement(e)[1]

(* The live regions of the packer that an entry of the cache names *)
RegionsOf(pk, e) ==
    {a \in pk.allocations : e.atlas_id # None /\ a.id = e.atlas_id[1]}

(* The packer with only the regions of the glyphs in use left allocated *)
OnlyInUse(k) ==
    [packer[k] EXCEPT !.allocations =
        {a \in @ : \E i \in 1..Len(glyph_cache[k]) :
            /\ glyph_cache[k][i].key \in glyphs_in_use[k]
            /\ a \in RegionsOf(packer[k], glyph_cache[k][i])}]

(* C1: a glyph in glyphs_in_use is never removed from the glyph cache and  *)
(* its region is never deallocated, whatever step is taken; and a          *)
(* try_allocate for which there is no room beside the regions of the       *)
(* glyphs in use returns None.                                             *)
C1_InUseNeverEvicted ==
    [][\A k \in Kinds :
        /\ \A i \in 1..Len(glyph_cache[k]) :
            LET e == glyph_cache[k][i]
            IN  e.key \in glyphs_in_use[k] =>
                  /\ e.key \in CacheKeys(glyph_cache'[k])
                  /\ Entry(glyph_cache'[k], e.key) = e
                  /\ RegionsOf(packer[k], e) \subseteq packer'[k].allocations
        /\ ( /\ pc = "allocate"
             /\ k = KindOf(req)
             /\ PackerAllocate(OnlyInUse(k), WidthOf(req), HeightOf(req)) = None )
           => ( /\ out'.op = "try_allocate"
                /\ out'.ret = "None"
                /\ pc' = "grow" )
      ]_vars

(* A try_allocate evicted what was not in use and was then stopped by a    *)
(* sized glyph in use, for a request that the plane is wide enough for     *)
C1_Witness ==
    /\ out.op = "try_allocate"
    /\ out.ret = "None"
    /\ out.evicted # <<>>
    /\ glyph_cache[out.kind] # <<>>
    /\ peek_lru(glyph_cache[out.kind]).key \in glyphs_in_use[out.kind]
    /\ peek_lru(glyph_cache[out.kind]).atlas_id # None

(* C2: no two placements cached in the same plane overlap *)
C2_NoOverlap ==
    \A k \in Kinds :
        \A i, j \in SizedEntries(glyph_cache[k]) :
            i # j => ~Overlap(PlacementRect(glyph_cache[k][i]),
                              PlacementRect(glyph_cache[k][j]))

(* A glyph was placed, after an eviction by an earlier request and after   *)
(* growth, beside another placement that is live                           *)
C2_Witness ==
    /\ out.op = "try_allocate"
    /\ out.ret = "Some"
    /\ size[out.kind] > INITIAL_SIZE
    /\ Cardinality(SizedEntries(glyph_cache[out.kind])) >= 2
    /\ out.placement[1].x = 0
    /\ \E i \in SizedEntries(glyph_cache[out.kind]) :
          /\ glyph_cache[out.kind][i].key # out.key
          /\ glyph_cache[out.kind][i].gpu_cache.x > 0

(* C3: every cached glyph with a Placement owns exactly one live region   *)
(* of the packer, at its coordinates and of its size, no two glyphs own    *)
(* the same region, and every live region lies inside the square of the    *)
(* current side length.                                                    *)
C3_PlacedOwnsRegion ==
    \A k \in Kinds :
        /\ \A i \in SizedEntries(glyph_cache[k]) :
            LET e == glyph_cache[k][i]
            IN  /\ Cardinality(RegionsOf(packer[k], e)) = 1
                /\ \A a \in RegionsOf(packer[k], e) :
                      /\ a.x = e.gpu_cache.x
                      /\ a.y = e.gpu_cache.y
                      /\ a.width = e.width
                      /\ a.height = e.height
        /\ \A i, j \in SizedEntries(glyph_cache[k]) :
              i # j => glyph_cache[k][i].atlas_id # glyph_cache[k][j].atlas_id
        /\ \A a \in packer[k].allocations : Inside(a, size[k])

(* A grown plane caches an empty glyph and a sized one whose region ends   *)
(* at the side of the plane                                                *)
C3_Witness ==
    \E k \in Kinds :
        /\ size[k] > INITIAL_SIZE
        /\ \E i \in 1..Len(glyph_cache[k]) : glyph_cache[k][i].atlas_id = None
        /\ \E i \in SizedEntries(glyph_cache[k]) :
              glyph_cache[k][i].gpu_cache.x + glyph_cache[k][i].width = size[k]

(* C4: the glyph cache is ordered by last access, a hit counting as an     *)
(* access, and the glyphs a try_allocate evicts are the least recently     *)
(* accessed ones, oldest first.                                            *)
C4_RecencyFollowsAccess ==
    [][\A k \in Kinds :
        /\ KeySeq(glyph_cache'[k]) = access'[k]
        /\ (pc = "allocate" /\ k = KindOf(req)) =>
              /\ Len(out'.evicted) <= Len(access[k])
              /\ KeySeq(out'.evicted) = SubSeq(access[k], 1, Len(out'.evicted))
      ]_vars

(* Glyph 1 was placed first, glyph 2 beside it, glyph 1 was accessed last, *)
(* and a try_allocate evicted glyph 2 and then glyph 1                     *)
C4_Witness ==
    /\ out.op = "try_allocate"
    /\ Len(out.evicted) = 2
    /\ out.evicted[1].key = 2
    /\ out.evicted[1].gpu_cache.x > 0
    /\ out.evicted[2].key = 1
    /\ out.evicted[2].gpu_cache.x = 0

(* C5: a grow that returns true leaves every entry of the glyph cache as   *)
(* it was (same coordinates and size, none added or removed) and uploads   *)
(* the bitmap of each entry with a Placement once, at its coordinates,     *)
(* into the new texture; entries without a Placement are not uploaded.     *)
C5_GrowKeepsPlacements ==
    [][(pc = "grow" /\ out'.ret = "true") =>
        LET k == KindOf(req)
            cache == glyph_cache[k]
            ups == out'.uploads
        IN  /\ glyph_cache'[k] = cache
            /\ texture'[k] = NewTexture(size'[k])
            /\ Len(ups) = Cardinality(SizedEntries(cache))
            /\ \A i \in SizedEntries(cache) :
                  Cardinality({j \in 1..Len(ups) :
                      ups[j] = Region(cache[i].key, cache[i].gpu_cache.x,
                                      cache[i].gpu_cache.y,
                                      cache[i].width, cache[i].height)}) = 1
            /\ \A j \in 1..Len(ups) :
                  \E i \in SizedEntries(cache) : cache[i].key = ups[j].key
      ]_vars

(* A grow returned true on a plane with two placed glyphs, one of them not *)
(* at the origin, and an empty one                                         *)
C5_Witness ==
    /\ out.op = "grow"
    /\ out.ret = "true"
    /\ Len(out.uploads) >= 2
    /\ \E j \in 1..Len(out.uploads) : out.uploads[j].x > 0
    /\ \E i \in 1..Len(glyph_cache[out.kind]) :
          glyph_cache[out.kind][i].atlas_id = None

RECURSIVE Pow(_, _)
Pow(b, n) == IF n = 0 THEN 1 ELSE b * Pow(b, n - 1)

(* The number of doublings that lead from the initial side to side s *)
Doublings(s) ==
    CHOOSE n \in 0..6 : s = INITIAL_SIZE * Pow(GROWTH_FACTOR, n)

(* C6: grow returns false exactly when the side is the maximum, 16384;     *)
(* when it returns true the side becomes min(2 * side, 16384).  The side   *)
(* is always 256 doubled 0 to 6 times, never decreases, and is the maximum *)
(* when grow returns false: from 256, grow succeeds exactly 6 times.  Below *)
(* the maximum grow returns true, unless the external rasterizer breaks    *)
(* its contract and grow panics, which changes no side.                    *)
C6_GrowDoublesToMaximum ==
    [][\A k \in Kinds :
        /\ size'[k] >= size[k]
        /\ size'[k] <= MAX_TEXTURE_DIMENSION_2D
        /\ \E n \in 0..6 : size'[k] = INITIAL_SIZE * Pow(GROWTH_FACTOR, n)
        /\ (pc = "grow" /\ k = KindOf(req)) =>
              /\ out'.op = "grow"
              /\ (out'.ret = "false") <=> (size[k] = MAX_TEXTURE_DIMENSION_2D)
              /\ (out'.ret = "false") =>
                    (size'[k] = size[k] /\ Doublings(size[k]) = 6)
              /\ (out'.ret = "true") =>
                    /\ size'[k] = Min(2 * size[k], MAX_TEXTURE_DIMENSION_2D)
                    /\ Doublings(size'[k]) = Doublings(size[k]) + 1
              /\ (size[k] < MAX_TEXTURE_DIMENSION_2D /\ out'.answer \in {"", "ok"}) =>
                    out'.ret = "true"
              /\ (out'.ret = "panic") =>
                    (size'[k] = size[k] /\ out'.answer \in {"none", "mismatch"})
      ]_vars

(* grow returned false on a plane of side 16384 *)
C6_Witness ==
    /\ out.op = "grow"
    /\ out.ret = "false"
    /\ size[out.kind] = MAX_TEXTURE_DIMENSION_2D
    /\ Doublings(size[out.kind]) = 6

(* C7: a grow that returns true or false leaves glyphs_in_use and the      *)
(* order of the glyph cache, least to most recently used, as they were.    *)
C7_GrowKeepsInUseAndOrder ==
    [][(pc = "grow" /\ out'.ret \in {"true", "false"}) =>
        /\ glyphs_in_use' = glyphs_in_use
        /\ \A k \in Kinds : KeySeq(glyph_cache'[k]) = KeySeq(glyph_cache[k])
      ]_vars

(* A grow returned true on a plane with two glyphs cached and in use *)
C7_Witness ==
    /\ out.op = "grow"
    /\ out.ret = "true"
    /\ Len(glyph_cache[out.kind]) >= 2
    /\ Cardinality(glyphs_in_use[out.kind]) >= 2

(* C8: ensure_resident returns AtlasAtMaximumSize only from the state      *)
(* after a failed try_allocate (pc = "grow") with the side of the routed   *)
(* plane at the maximum; a failed try_allocate is always followed by a     *)
(* grow, and with the side below the maximum that grow does not return     *)
(* false, no error is returned, and a grow that returned true is followed  *)
(* by another try_allocate for the same request.                           *)
C8_ErrorOnlyAtMaximum ==
    [][/\ (out'.result = "AtlasAtMaximumSize") =>
            /\ pc = "grow"
            /\ size[KindOf(req)] = MAX_TEXTURE_DIMENSION_2D
            /\ size'[KindOf(req)] = MAX_TEXTURE_DIMENSION_2D
       /\ (pc = "allocate" /\ out'.ret = "None") =>
            (pc' = "grow" /\ req' = req /\ out'.result = "")
       /\ (pc' = "grow") =>
            (pc = "allocate" /\ out'.op = "try_allocate" /\ out'.ret = "None")
       /\ (pc = "grow") =>
            /\ out'.op = "grow"
            /\ out'.kind = KindOf(req)
            /\ (size[KindOf(req)] < MAX_TEXTURE_DIMENSION_2D) =>
                  /\ out'.ret # "false"
                  /\ out'.result = ""
            /\ (out'.ret = "true") => (pc' = "allocate" /\ req' = req)
      ]_vars

(* The error was returned for a plane that still caches a glyph in use *)
C8_Witness ==
    /\ out.result = "AtlasAtMaximumSize"
    /\ size[out.kind] = MAX_TEXTURE_DIMENSION_2D
    /\ glyph_cache[out.kind] # <<>>
    /\ glyphs_in_use[out.kind] # {}

(* C9: when ensure_resident returns a Placement for a key, the key is the  *)
(* most recently used entry of the glyph cache of its plane and is in      *)
(* glyphs_in_use, the Placement returned is the cached one, and if the     *)
(* request has an area the Placement names a live region of the requested  *)
(* size; a finished ensure_resident returned a Placement or the error.     *)
C9_NeverSilentlyDropped ==
    /\ (out.result = "Placement") =>
        LET k == KindOf(out.key)
            cache == glyph_cache[k]
        IN  /\ cache # <<>>
            /\ cache[Len(cache)].key = out.key
            /\ out.key \in glyphs_in_use[k]
            /\ out.placement = Placement(cache[Len(cache)])
            /\ ~ZeroArea(WidthOf(out.key), HeightOf(out.key)) =>
                  /\ out.placement # None
                  /\ out.placement[1].width = WidthOf(out.key)
                  /\ out.placement[1].height = HeightOf(out.key)
                  /\ \E a \in packer[k].allocations :
                        /\ a.x = out.placement[1].x
                        /\ a.y = out.placement[1].y
                        /\ a.width = WidthOf(out.key)
                        /\ a.height = HeightOf(out.key)
    /\ (pc = "idle" /\ out.op \in {"ensure_resident", "try_allocate", "grow"}) =>
          out.result \in {"Placement", "AtlasAtMaximumSize"}

(* A glyph was placed after the eviction of another *)
C9_Witness ==
    /\ out.result = "Placement"
    /\ out.op = "try_allocate"
    /\ \E i \in 1..Len(out.evicted) : out.evicted[i].atlas_id # None
    /\ out.placement # None

(* C10: a request for a cached key moves its entry, unchanged, to the most *)
(* recently used end and keeps the other entries in their order, adds the  *)
(* key to glyphs_in_use, returns the cached Placement, and calls neither   *)
(* a rasterizer nor the packer: nothing is evicted, allocated or uploaded. *)
C10_HitOnlyPromotes ==
    [][\A key \in Keys :
        ( /\ pc = "idle"
          /\ out'.op = "ensure_resident"
          /\ out'.key = key
          /\ key \in CacheKeys(glyph_cache[KindOf(key)]) ) =>
        LET k == KindOf(key)
            cache == glyph_cache[k]
        IN  /\ out'.ret = "hit"
            /\ out'.result = "Placement"
            /\ out'.placement = Placement(Entry(cache, key))
            /\ glyph_cache'[k] = Append(CacheWithout(cache, key), Entry(cache, key))
            /\ glyphs_in_use'[k] = glyphs_in_use[k] \cup {key}
            /\ out'.rasterized = <<>>
            /\ out'.uploads = <<>>
            /\ out'.attempts = 0
            /\ out'.evicted = <<>>
            /\ packer' = packer
            /\ texture' = texture
            /\ size' = size
            /\ pc' = "idle"
            /\ \A other \in Kinds \ {k} :
                  /\ glyph_cache'[other] = glyph_cache[other]
                  /\ glyphs_in_use'[other] = glyphs_in_use[other]
      ]_vars

(* A hit on a placed glyph that is not the only entry, nor the last one of *)
(* the glyphs in use                                                       *)
C10_Witness ==
    /\ out.op = "ensure_resident"
    /\ out.ret = "hit"
    /\ out.placement # None
    /\ Len(glyph_cache[out.kind]) >= 3
    /\ glyphs_in_use[out.kind] # CacheKeys(glyph_cache[out.kind])

-----------------------------------------------------------------------------
(* C11: a cached glyph stays cached, with the entry it was cached with,    *)
(* through every step that evicts nothing, and through every trim; and a   *)
(* request for a cached glyph is a hit that returns the Placement of that  *)
(* entry and asks no rasterizer.  So a glyph placed and not evicted since  *)
(* is, after any number of trims, a hit with the same Placement.           *)
C11_ResidencySurvivesTrim ==
    [][\A k \in Kinds :
        /\ \A i \in 1..Len(glyph_cache[k]) :
              LET e == glyph_cache[k][i]
              IN  /\ e.key \in CacheKeys(glyph_cache'[k]) =>
                        Entry(glyph_cache'[k], e.key) = e
                  /\ out'.evicted = <<>> => e.key \in CacheKeys(glyph_cache'[k])
        /\ out'.op = "trim" => glyph_cache'[k] = glyph_cache[k]
        /\ ( /\ pc = "idle"
             /\ out'.op = "ensure_resident"
             /\ out'.key \in CacheKeys(glyph_cache[k])
             /\ KindOf(out'.key) = k ) =>
                /\ out'.ret = "hit"
                /\ out'.placement = Placement(Entry(glyph_cache[k], out'.key))
                /\ out'.rasterized = <<>>
      ]_vars

(* A hit on a placed glyph that is the only glyph in use while another is  *)
(* cached: a trim came between its placement and this request              *)
C11_Witness ==
    /\ out.op = "ensure_resident"
    /\ out.ret = "hit"
    /\ out.placement # None
    /\ glyphs_in_use[out.kind] = {out.key}
    /\ Len(glyph_cache[out.kind]) >= 2

-----------------------------------------------------------------------------
(* C12: TextAtlas::trim empties glyphs_in_use on both planes and changes   *)
(* nothing else: on each plane the glyph cache (contents and order), the   *)
(* packer, the size and the texture are the same before and after.         *)
C12_TrimOnlyClearsInUse ==
    [][out'.op = "trim" =>
        \A k \in Kinds :
            /\ glyphs_in_use'[k] = {}
            /\ glyph_cache'[k] = glyph_cache[k]
            /\ packer'[k] = packer[k]
            /\ size'[k] = size[k]
            /\ texture'[k] = texture[k]
      ]_vars

(* A trim with sized glyphs cached on both planes, the mask plane grown *)
C12_Witness ==
    /\ out.op = "trim"
    /\ \A k \in Kinds : SizedEntries(glyph_cache[k]) # {}
    /\ size["Mask"] > INITIAL_SIZE
    /\ size["Color"] = INITIAL_SIZE

(* C13: trim is idempotent: a plane trimmed twice is the plane trimmed     *)
(* once, and of two consecutive calls of TextAtlas::trim the second leaves *)
(* every part of the atlas as the first left it.                           *)
C13_TrimIdempotent ==
    [][/\ \A k \in Kinds : trim(trim(Atlas(k))) = trim(Atlas(k))
       /\ (out.op = "trim" /\ out'.op = "trim") =>
             <<size, packer, texture, glyph_cache, glyphs_in_use>>' =
             <<size, packer, texture, glyph_cache, glyphs_in_use>>
      ]_vars

(* After a trim (and so after two), with a sized and an empty glyph cached *)
C13_Witness ==
    /\ out.op = "trim"
    /\ \E i \in 1..Len(glyph_cache["Mask"]) : glyph_cache["Mask"][i].atlas_id = None
    /\ SizedEntries(glyph_cache["Mask"]) # {}
    /\ glyphs_in_use["Mask"] = {}

-----------------------------------------------------------------------------
(* C14: an entry leaves a glyph cache only by the eviction loop of a       *)
(* try_allocate on that plane, which logs it as evicted: no trim, no grow  *)
(* and no cache hit removes an entry.                                      *)
C14_LeavesOnlyByEviction ==
    [][\A k \in Kinds :
        LET gone == CacheKeys(glyph_cache[k]) \ CacheKeys(glyph_cache'[k])
        IN  /\ gone # {} => (out'.op = "try_allocate" /\ out'.kind = k)
            /\ (out'.op = "try_allocate" /\ out'.kind = k) =>
                  gone = CacheKeys(out'.evicted)
            /\ (out'.op \in {"trim", "grow"} \/ out'.ret = "hit") => gone = {}
      ]_vars

(* A grow that returned true with an empty and a sized glyph cached, both  *)
(* still cached after it                                                   *)
C14_Witness ==
    /\ out.op = "grow"
    /\ out.ret = "true"
    /\ \E i \in 1..Len(glyph_cache[out.kind]) :
          glyph_cache[out.kind][i].atlas_id = None
    /\ SizedEntries(glyph_cache[out.kind]) # {}

-----------------------------------------------------------------------------
(* The plane without the cache entries that have no region *)
WithoutZeroArea(atlas) ==
    [atlas EXCEPT !.glyph_cache = SelectSeq(@, LAMBDA e : e.atlas_id # None)]

(* The sized entries of a sequence of evicted entries, in order *)
SizedOf(evicted) == SelectSeq(evicted, LAMBDA e : e.atlas_id # None)

(* Every glyph in use was accessed after every glyph that is not *)
InUseMostRecent ==
    \A k \in Kinds : \A i, j \in 1..Len(glyph_cache[k]) :
        (i < j /\ glyph_cache[k][i].key \in glyphs_in_use[k]) =>
            glyph_cache[k][j].key \in glyphs_in_use[k]

(* C15: entries without a region do not count in the eviction: every       *)
(* try_allocate returns what it would return on the same plane without     *)
(* those entries (the same region, or None), evicts the same sized         *)
(* entries in the same order and leaves the same packer.  The glyphs in    *)
(* use are always the most recent ones, so when try_allocate stops at an   *)
(* entry without a region that is in use, every sized entry still cached   *)
(* is in use as well.                                                      *)
C15_ZeroAreaExempt ==
    [][/\ InUseMostRecent
       /\ pc = "allocate" =>
            LET k == KindOf(req)
                without == try_allocate(WithoutZeroArea(Atlas(k)),
                                        WidthOf(req), HeightOf(req))
            IN  /\ out'.op = "try_allocate"
                /\ (out'.ret = "None") <=> (without.allocation = None)
                /\ out'.ret = "Some" =>
                      PlacementRect(Entry(glyph_cache'[k], req)) =
                      [x |-> without.allocation[1].x,
                       y |-> without.allocation[1].y,
                       width |-> without.allocation[1].width,
                       height |-> without.allocation[1].height]
                /\ SizedOf(out'.evicted) = without.evicted
                /\ out'.freed = without.freed
                /\ packer'[k] = without.packer
      ]_vars

(* A try_allocate that popped an entry without a region and evicted a      *)
(* sized one, and then succeeded                                           *)
C15_Witness ==
    /\ out.op = "try_allocate"
    /\ out.ret = "Some"
    /\ \E i \in 1..Len(out.evicted) : out.evicted[i].atlas_id = None
    /\ \E i \in 1..Len(out.evicted) : out.evicted[i].atlas_id # None

-----------------------------------------------------------------------------
(* C16: a request for a glyph of width 0 or height 0, the first one and    *)
(* every later one, leaves the glyph cached with Placement none and in     *)
(* glyphs_in_use and returns none; it never calls the packer, so the live  *)
(* regions, the sizes and the textures are unchanged, and nothing is       *)
(* evicted, rasterized or uploaded.                                        *)
C16_ZeroAreaNeverAllocates ==
    [][\A key \in Keys :
        ( /\ pc = "idle"
          /\ out'.op = "ensure_resident"
          /\ out'.key = key
          /\ (WidthOf(key) = 0 \/ HeightOf(key) = 0) ) =>
        LET k == KindOf(key)
        IN  /\ pc' = "idle"
            /\ out'.result = "Placement"
            /\ out'.placement = None
            /\ out'.attempts = 0
            /\ out'.evicted = <<>>
            /\ out'.rasterized = <<>>
            /\ out'.uploads = <<>>
            /\ key \in CacheKeys(glyph_cache'[k])
            /\ Placement(Entry(glyph_cache'[k], key)) = None
            /\ Entry(glyph_cache'[k], key).atlas_id = None
            /\ key \in glyphs_in_use'[k]
            /\ packer' = packer
            /\ size' = size
            /\ texture' = texture
            /\ CacheKeys(glyph_cache'[k]) = CacheKeys(glyph_cache[k]) \cup {key}
      ]_vars

(* A repeated request for the glyph without area, after a trim, while a    *)
(* sized glyph holds a region                                              *)
C16_Witness ==
    /\ out.op = "ensure_resident"
    /\ out.ret = "hit"
    /\ WidthOf(out.key) = 0
    /\ glyphs_in_use[out.kind] = {out.key}
    /\ packer[out.kind].allocations # {}

-----------------------------------------------------------------------------
(* A plane holds n glyphs, all with a region, all in use *)
Resident(cache, pk, in_use, n) ==
    /\ Len(cache) = n
    /\ Cardinality(SizedEntries(cache)) = n
    /\ Cardinality(pk.allocations) = n
    /\ in_use = CacheKeys(cache)

AllResident(n) ==
    Resident(glyph_cache["Mask"], packer["Mask"], glyphs_in_use["Mask"], n)

AllResidentNext(n) ==
    Resident(glyph_cache'["Mask"], packer'["Mask"], glyphs_in_use'["Mask"], n)

(* C17: on a fresh plane of side 256 each of the first 64 requests for     *)
(* distinct 32 by 32 glyphs gets a region at the first allocation, with no *)
(* eviction and no growth; after the 64th the cache holds 64 sized         *)
(* entries and the side is still 256.                                      *)
C17_FirstBatchFits ==
    [][/\ ( /\ pc = "allocate"
            /\ Len(glyph_cache["Mask"]) < FirstBatch ) =>
                /\ size["Mask"] = INITIAL_SIZE
                /\ out'.ret = "Some"
                /\ out'.attempts = 1
                /\ out'.evicted = <<>>
                /\ size'["Mask"] = INITIAL_SIZE
                /\ AllResidentNext(Len(glyph_cache["Mask"]) + 1)
       /\ Len(glyph_cache["Mask"]) < FirstBatch => out'.op # "grow"
      ]_vars

(* The 64 glyphs are resident on the plane of side 256 *)
C17_Witness ==
    /\ FirstBatch = 64
    /\ AllResident(FirstBatch)
    /\ FirstKeys = CacheKeys(glyph_cache["Mask"])
    /\ size["Mask"] = INITIAL_SIZE
    /\ pc = "idle"
    /\ out.op = "try_allocate"

(* C18: when the plane is full and every cached glyph is in use, an        *)
(* allocation attempt returns None and evicts nothing, whichever of the    *)
(* further glyphs asks; the grow that follows doubles the side, and after  *)
(* it every pending request gets a region without any eviction, so that    *)
(* in the end the glyphs of both batches are resident together on the      *)
(* plane of the doubled side.                                              *)
C18_FullThenGrow ==
    [][/\ ( /\ pc = "allocate"
            /\ PackerAllocate(packer["Mask"], WidthOf(req), HeightOf(req)) = None
            /\ CacheKeys(glyph_cache["Mask"]) \subseteq glyphs_in_use["Mask"] ) =>
                /\ out'.ret = "None"
                /\ out'.evicted = <<>>
                /\ glyph_cache' = glyph_cache
                /\ packer' = packer
                /\ pc' = "grow"
       /\ pc = "grow" =>
                /\ out'.ret = "true"
                /\ size'["Mask"] = GROWTH_FACTOR * INITIAL_SIZE
                /\ AllResidentNext(Len(glyph_cache["Mask"]))
                /\ pc' = "allocate"
       /\ ( /\ pc = "allocate"
            /\ size["Mask"] > INITIAL_SIZE ) =>
                /\ out'.ret = "Some"
                /\ out'.evicted = <<>>
                /\ AllResidentNext(Len(glyph_cache["Mask"]) + 1)
       /\ out'.evicted = <<>>
       /\ Len(glyph_cache'["Mask"]) = FirstBatch + SecondBatch =>
                /\ size'["Mask"] = GROWTH_FACTOR * INITIAL_SIZE
                /\ CacheKeys(glyph_cache'["Mask"]) = ScenarioKeys
      ]_vars

(* The 64 + 6 = 70 glyphs are resident together on the plane of side 512 *)
C18_Witness ==
    /\ FirstBatch + SecondBatch = 70
    /\ AllResident(FirstBatch + SecondBatch)
    /\ CacheKeys(glyph_cache["Mask"]) = ScenarioKeys
    /\ size["Mask"] = 512
    /\ pc = "idle"

-----------------------------------------------------------------------------
(* The sized Custom glyphs of a cache: those grow asks the external        *)
(* rasterizer for                                                          *)
CustomPlaced(cache) ==
    {i \in SizedEntries(cache) : IsCustom(cache[i].key)}

(* C19: when a grow asks the external rasterizer for a cached Custom glyph *)
(* that has a Placement and the answer is none, or a bitmap of other       *)
(* dimensions or content kind, grow panics: it returns neither true nor    *)
(* false, ensure_resident does not continue, and the glyph cache, the      *)
(* glyphs in use and the size are as they were.  Grow panics in no other   *)
(* case.                                                                   *)
C19_MismatchAborts ==
    [][pc = "grow" =>
        LET k == KindOf(req)
            asked == /\ size[k] < MAX_TEXTURE_DIMENSION_2D
                     /\ CustomPlaced(glyph_cache[k]) # {}
        IN  /\ out'.op = "grow"
            /\ (out'.answer # "") <=> asked
            /\ out'.answer \in {"none", "mismatch"} =>
                  /\ out'.ret = "panic"
                  /\ pc' = "aborted"
                  /\ glyph_cache' = glyph_cache
                  /\ glyphs_in_use' = glyphs_in_use
                  /\ size' = size
            /\ out'.ret = "panic" => out'.answer \in {"none", "mismatch"}
            /\ pc' = "aborted" <=> out'.ret = "panic"
      ]_vars

(* A grow aborted on a bitmap that does not match, with a Custom and a     *)
(* Text glyph placed                                                       *)
C19_Witness ==
    /\ pc = "aborted"
    /\ out.op = "grow"
    /\ out.ret = "panic"
    /\ out.answer = "mismatch"
    /\ Cardinality(SizedEntries(glyph_cache[out.kind])) >= 2

-----------------------------------------------------------------------------
(* C20: every request a grow makes of the external rasterizer carries the  *)
(* id, width and height of the cached glyph it is for (its bins are part   *)
(* of the id) and the scale of the request that cached that glyph.         *)
C20_OriginalParameters ==
    [][pc = "grow" =>
        \A i \in 1..Len(out'.rasterized) :
            LET input == out'.rasterized[i]
            IN  input.source = "custom" =>
                  /\ input.id \in CacheKeys(glyph_cache[KindOf(req)])
                  /\ input.width = WidthOf(input.id)
                  /\ input.height = HeightOf(input.id)
                  /\ <<input.id, input.scale>> \in origin
      ]_vars

(* What holds of the scale instead: it is the scale of the request that    *)
(* made the atlas grow, for every glyph asked for                          *)
C20_ScaleOfGrowingRequest ==
    [][pc = "grow" =>
        \A i \in 1..Len(out'.rasterized) :
            LET input == out'.rasterized[i]
            IN  input.source = "custom" =>
                  /\ input.id \in CacheKeys(glyph_cache[KindOf(req)])
                  /\ input.width = WidthOf(input.id)
                  /\ input.height = HeightOf(input.id)
                  /\ input.scale = scale_factor
      ]_vars

(* A grow asked the external rasterizer for a glyph with a scale that is   *)
(* not the scale of the request that cached it                             *)
C20_Witness ==
    /\ out.op = "grow"
    /\ \E i \in 1..Len(out.rasterized) :
          /\ out.rasterized[i].source = "custom"
          /\ <<out.rasterized[i].id, out.rasterized[i].scale>> \notin origin
          /\ \E p \in origin : p[1] = out.rasterized[i].id

(* The plane that content of the other kind lives on *)
OtherPlane(k) == IF k = "Mask" THEN "Color" ELSE "Mask"

(* C24: every step of ensure_resident (the lookup, try_allocate, grow)     *)
(* for a glyph of content kind Mask works on the mask plane and leaves     *)
(* the glyph cache, the in-use set, the allocator, the side length and     *)
(* the texture of the color plane as they were, and the other way round    *)
(* for a glyph of kind Color; a grow that succeeds enlarges the plane of   *)
(* the kind and no other.                                                  *)
C24_RoutedToOnePlane ==
    [][out'.op \in {"ensure_resident", "try_allocate", "grow"} =>
        LET k == KindOf(out'.key)
            other == OtherPlane(k)
        IN  /\ out'.kind = k
            /\ glyph_cache'[other] = glyph_cache[other]
            /\ glyphs_in_use'[other] = glyphs_in_use[other]
            /\ packer'[other] = packer[other]
            /\ size'[other] = size[other]
            /\ texture'[other] = texture[other]
            /\ (out'.op = "grow" /\ out'.ret = "true" => size'[k] > size[k])
            /\ (out'.ret \in {"hit", "zero", "Some"} =>
                   /\ out'.key \in glyphs_in_use'[k]
                   /\ out'.key \in CacheKeys(glyph_cache'[k]))]_vars

C24_Witness ==
    /\ out.op = "grow" /\ out.ret = "true" /\ out.kind = "Color"
    /\ glyphs_in_use["Mask"] # {}
    /\ size["Mask"] > INITIAL_SIZE
    /\ size["Color"] > INITIAL_SIZE

(* C25: every call of ensure_resident comes to an end.  A request that    *)
(* missed the cache, of any size, one wider than the largest texture      *)
(* included, leads to a return with a Placement or with the capacity      *)
(* error (or to the abort of a grow whose rasterizer broke its contract): *)
(* each grow that lets the cycle go on enlarges the plane, and no plane    *)
(* is larger than the maximum.                                             *)
C25_EnsureResidentTerminates ==
    /\ [][out'.op = "grow" /\ pc' = "allocate" =>
            /\ size'[out'.kind] > size[out'.kind]
            /\ size'[out'.kind] <= MAX_TEXTURE_DIMENSION_2D]_vars
    /\ (pc \in {"allocate", "grow"}) ~>
            \/ pc = "idle" /\ out.result \in {"Placement", "AtlasAtMaximumSize"}
            \/ pc = "aborted" /\ out.answer \in {"none", "mismatch"}

C25_Witness ==
    /\ pc = "idle"
    /\ out.op = "grow" /\ out.result = "AtlasAtMaximumSize"
    /\ WidthOf(out.key) > MAX_TEXTURE_DIMENSION_2D
    /\ size[out.kind] = MAX_TEXTURE_DIMENSION_2D

(* The plane try_allocate is about to run on, and whether its first call  *)
(* of packer.allocate fails                                               *)
ReqPlane == inner_for_content_mut(KindOf(req))

FirstAllocateFails ==
    PackerAllocate(packer[ReqPlane], WidthOf(req), HeightOf(req)) = None

(* The statement of C26 as it stands: whenever the eviction loop finds an  *)
(* entry without a Placement least recently used, it pops the entry and    *)
(* peeks again.  An entry in use is not popped, so this does not hold.     *)
C26_ZeroAreaAlwaysPopped ==
    [][pc = "allocate" =>
        LET cache == glyph_cache[ReqPlane]
        IN  (FirstAllocateFails /\ cache # <<>> /\ Head(cache).atlas_id = None) =>
               /\ Head(cache).key \notin CacheKeys(glyph_cache'[ReqPlane])
               /\ out'.evicted # <<>> /\ out'.evicted[1] = Head(cache)
               /\ out'.peeks >= 2]_vars

(* C26: in the eviction loop an entry without a Placement that is least    *)
(* recently used and not in use is popped with no deallocate, and the      *)
(* loop peeks again: the entries try_allocate pops are the oldest of the   *)
(* cache in order, none of them in use; the loop never returns at an       *)
(* entry without a Placement that is not in use; the regions deallocated   *)
(* are those of the sized entries popped and no other; and every pop of    *)
(* an entry without a Placement is followed by another peek.               *)
C26_ZeroAreaNotInUsePopped ==
    [][pc = "allocate" =>
        LET k == ReqPlane
            cache == glyph_cache[k]
            evicted == out'.evicted
            left == SubSeq(cache, Len(evicted) + 1, Len(cache))
        IN  /\ Len(evicted) <= Len(cache)
            /\ \A i \in 1..Len(evicted) :
                   evicted[i] = cache[i] /\ evicted[i].key \notin glyphs_in_use[k]
            /\ (out'.ret = "None" /\ left # <<>> =>
                   ~ (Head(left).atlas_id = None /\ Head(left).key \notin glyphs_in_use[k]))
            /\ (FirstAllocateFails /\ cache # <<>> /\ Head(cache).atlas_id = None
                   /\ Head(cache).key \notin glyphs_in_use[k] =>
                     evicted # <<>> /\ evicted[1] = Head(cache) /\ out'.peeks >= 2)
            /\ out'.freed = [i \in 1..Len(SizedOf(evicted)) |->
                                EvictedRegion(SizedOf(evicted)[i])]
            /\ LET kept == {a \in packer[k].allocations :
                               \A i \in 1..Len(out'.freed) : out'.freed[i] # a.id}
                   granted == packer'[k].allocations \ kept
               IN  /\ kept \subseteq packer'[k].allocations
                   /\ Cardinality(kept) + Len(out'.freed)
                        = Cardinality(packer[k].allocations)
                   /\ Cardinality(granted) = IF out'.ret = "None" THEN 0 ELSE 1
            /\ out'.peeks = Len(evicted) + (IF out'.ret = "None" THEN 1 ELSE 0)]_vars

C26_Witness ==
    /\ out.op = "try_allocate" /\ out.ret = "Some"
    /\ Len(out.evicted) = 2
    /\ out.evicted[1].atlas_id = None
    /\ out.evicted[2].atlas_id # None
    /\ Len(out.freed) = 1
    /\ out.peeks = 2

(* The entry at which a try_allocate that returned None stopped: the      *)
(* least recently used entry it left in the cache                          *)
StoppedAtInUseZeroArea ==
    LET k == ReqPlane
        left == glyph_cache'[k]
    IN  /\ pc = "allocate"
        /\ out'.ret = "None"
        /\ left # <<>>
        /\ Head(left).atlas_id = None
        /\ Head(left).key \in glyphs_in_use[k]

(* The statement of C27 as it stands: an entry without a Placement that    *)
(* is in use is skipped, that is, it stays and the scan goes on to the     *)
(* next-oldest entry.  The scan returns at the entry instead: no younger   *)
(* entry is peeked.                                                        *)
C27_InUseZeroAreaSkipped ==
    [][StoppedAtInUseZeroArea /\ Len(glyph_cache'[ReqPlane]) > 1 =>
          /\ Head(glyph_cache'[ReqPlane]).key \in CacheKeys(glyph_cache'[ReqPlane])
          /\ out'.peeks >= Len(out'.evicted) + 2]_vars

(* C27: when the eviction scan meets an entry without a Placement that is  *)
(* in use, the entry is not removed and the scan ends there: try_allocate  *)
(* returns None without peeking a younger entry.  The attempt does not     *)
(* fail because of that entry alone: every entry left in the cache is in   *)
(* use, and try_allocate on the same plane with that entry taken out of    *)
(* the cache returns None as well.                                         *)
C27_InUseZeroAreaStops ==
    [][pc = "allocate" =>
        LET k == ReqPlane
            cache == glyph_cache[k]
            left == glyph_cache'[k]
        IN  /\ (FirstAllocateFails /\ cache # <<>> /\ Head(cache).atlas_id = None
                   /\ Head(cache).key \in glyphs_in_use[k] =>
                     /\ out'.ret = "None"
                     /\ out'.evicted = <<>>
                     /\ out'.peeks = 1
                     /\ left = cache)
            /\ (StoppedAtInUseZeroArea =>
                   /\ out'.peeks = Len(out'.evicted) + 1
                   /\ left = SubSeq(cache, Len(out'.evicted) + 1, Len(cache))
                   /\ \A i \in 1..Len(left) : left[i].key \in glyphs_in_use[k]
                   /\ try_allocate([Atlas(k) EXCEPT
                                      !.glyph_cache = CacheWithout(@, Head(left).key)],
                                   WidthOf(req), HeightOf(req)).allocation = None)]_vars

C27_Witness ==
    /\ pc = "grow"
    /\ out.op = "try_allocate" /\ out.ret = "None"
    /\ Len(glyph_cache[out.kind]) > 1
    /\ Head(glyph_cache[out.kind]).atlas_id = None
    /\ Head(glyph_cache[out.kind]).key \in glyphs_in_use[out.kind]
    /\ out.peeks = 1

(* What try_allocate left of the cache it found: the cache after the step *)
(* without the entry the step added for the glyph it placed                *)
Remaining ==
    CacheWithout(glyph_cache'[ReqPlane], req)

(* C28: eviction follows the recency order.  After every try_allocate the  *)
(* entries left of the cache are its n most recently used entries, for     *)
(* some n, in the order they had, the evicted ones are the others, oldest  *)
(* first, and no entry is evicted while an older one stays.                *)
C28_EvictsInRecencyOrder ==
    [][pc = "allocate" =>
        LET cache == glyph_cache[ReqPlane]
            gone == {out'.evicted[i].key : i \in 1..Len(out'.evicted)}
        IN  /\ req \notin CacheKeys(cache)
            /\ \E n \in 0..Len(cache) :
                   /\ Remaining = SubSeq(cache, Len(cache) - n + 1, Len(cache))
                   /\ out'.evicted = SubSeq(cache, 1, Len(cache) - n)
            /\ \A i, j \in 1..Len(cache) :
                   (i < j /\ cache[j].key \in gone) => cache[i].key \in gone
            /\ \A i \in 1..Len(cache) :
                   cache[i].key \in gone <=> cache[i].key \notin CacheKeys(Remaining)]_vars

(* A try_allocate that evicted two entries and left an older entry cached *)
C28_Witness ==
    /\ out.op = "try_allocate"
    /\ Len(out.evicted) >= 2
    /\ CacheWithout(glyph_cache[out.kind], out.key) # <<>>

(* The packer once the first j of the regions a try_allocate gave back    *)
(* are deallocated                                                         *)
FreedPacker(pk, freed, j) ==
    [pk EXCEPT !.allocations = {a \in @ : \A i \in 1..j : freed[i] # a.id}]

(* C29: eviction is lazy and minimal.  A try_allocate whose first call of  *)
(* packer.allocate succeeds evicts nothing; every sized entry evicted was  *)
(* evicted after a call of packer.allocate had failed with the entry still *)
(* resident; a call that succeeds made one call of packer.allocate more    *)
(* than it evicted sized entries, the last of them the first to succeed,   *)
(* and popped nothing after its last sized entry.                          *)
C29_LazyMinimalEviction ==
    [][pc = "allocate" =>
        LET pk == packer[ReqPlane]
            freed == out'.freed
            evicted == out'.evicted
        IN  /\ (~ FirstAllocateFails =>
                   /\ out'.ret = "Some"
                   /\ evicted = <<>> /\ freed = <<>>
                   /\ out'.attempts = 1 /\ out'.peeks = 0
                   /\ Remaining = glyph_cache[ReqPlane])
            /\ \A j \in 1..Len(freed) :
                   PackerAllocate(FreedPacker(pk, freed, j - 1),
                                  WidthOf(req), HeightOf(req)) = None
            /\ out'.attempts = Len(freed) + 1
            /\ (out'.ret = "Some" =>
                   /\ PackerAllocate(FreedPacker(pk, freed, Len(freed)),
                                      WidthOf(req), HeightOf(req)) # None
                   /\ (evicted # <<>> => evicted[Len(evicted)].atlas_id # None))]_vars

(* A try_allocate that succeeded at its second call of packer.allocate,    *)
(* after one sized entry was evicted, and left an entry that is not in use *)
C29_Witness ==
    /\ out.op = "try_allocate" /\ out.ret = "Some"
    /\ out.attempts = 2
    /\ Len(out.freed) = 1
    /\ \E i \in 1..Len(glyph_cache[out.kind]) :
           /\ glyph_cache[out.kind][i].key # out.key
           /\ glyph_cache[out.kind][i].key \notin glyphs_in_use[out.kind]

(* C30: when try_allocate returns None the cache is empty or its least    *)
(* recently used entry is in use; what the call popped before stays        *)
(* evicted, the entries out of the cache and their regions free; and with  *)
(* no glyph in use the call fails only once it has removed every entry.    *)
C30_FailureKeepsEvictions ==
    [][pc = "allocate" /\ out'.ret = "None" =>
        LET k == ReqPlane
            cache == glyph_cache[k]
            left == glyph_cache'[k]
            evicted == out'.evicted
        IN  /\ pc' = "grow"
            /\ left = <<>> \/ Head(left).key \in glyphs_in_use[k]
            /\ cache = evicted \o left
            /\ packer'[k] = FreedPacker(packer[k], out'.freed, Len(out'.freed))
            /\ \A i \in 1..Len(evicted) :
                   /\ evicted[i].key \notin CacheKeys(left)
                   /\ RegionsOf(packer'[k], evicted[i]) = {}
            /\ glyphs_in_use'[k] = glyphs_in_use[k]
            /\ (glyphs_in_use[k] = {} =>
                   left = <<>> /\ evicted = cache /\ packer'[k].allocations = {})]_vars

(* A try_allocate that evicted an entry, then met an entry in use and      *)
(* returned None                                                           *)
C30_Witness ==
    /\ pc = "grow"
    /\ out.op = "try_allocate" /\ out.ret = "None"
    /\ out.freed # <<>>
    /\ glyph_cache[out.kind] # <<>>
    /\ Head(glyph_cache[out.kind]).key \in glyphs_in_use[out.kind]

-----------------------------------------------------------------------------
(* The renderers whose call of get_or_create_pipeline has returned *)
Returned == {r \in Renderers : renderer[r].pc = "idle" /\ renderer[r].ret # None}

(* The key the specification gives the cache *)
KeyOf(r) == <<renderer[r].format, renderer[r].sample_count>>

(* The statement of C22: the cache memoizes by (pixel format, multisample  *)
(* count).  Two lookups with the same key return one pipeline, created     *)
(* once; two lookups whose keys differ return two pipelines, each created  *)
(* for its key.  The list is searched by pixel format alone, so lookups    *)
(* that differ in the sample count only are given the same pipeline.       *)
C22_KeyedByFormatAndSamples ==
    /\ \A r \in Returned : renderer[r].ret[1].format = renderer[r].format
    /\ \A r, q \in Returned :
           /\ KeyOf(r) = KeyOf(q) => renderer[r].ret = renderer[q].ret
           /\ KeyOf(r) # KeyOf(q) => renderer[r].ret[1].id # renderer[q].ret[1].id
    /\ \A i, j \in 1..Len(created) :
           (i # j) => created[i].format # created[j].format

(* Two lookups for one pixel format and two sample counts that returned    *)
(* the same pipeline                                                       *)
C22_Witness ==
    \E r, q \in Returned :
        /\ renderer[r].format = renderer[q].format
        /\ renderer[r].sample_count # renderer[q].sample_count
        /\ renderer[r].ret = renderer[q].ret
        /\ Len(created) = 1

(* What the cache does: it memoizes by pixel format.  Lookups for the same *)
(* format return the one pipeline created for it, lookups for different    *)
(* formats different pipelines, each created with its format.              *)
C22_KeyedByFormat ==
    /\ \A r \in Returned : renderer[r].ret[1].format = renderer[r].format
    /\ \A r, q \in Returned :
           (renderer[r].format = renderer[q].format)
               <=> (renderer[r].ret[1].id = renderer[q].ret[1].id)

(* In the lookup-or-create path: past cache.lock(), guard not dropped *)
HoldsGuard(r) == renderer[r].pc \in {"find", "create", "push", "unlock"}

(* C23: the lookup-or-create path is mutually exclusive under every        *)
(* interleaving of the renderers' calls: a renderer inside it holds the    *)
(* lock, so no two are inside; at most one pipeline is ever created for a  *)
(* key of the cache (a pixel format); the list never holds two entries     *)
(* with the same key; and every caller whose lookup has found or created   *)
(* its pipeline holds the one stored in the list for its key.              *)
C23_LookupOrCreateExclusive ==
    /\ \A r \in Renderers : HoldsGuard(r) => lock = r
    /\ \A r, q \in Renderers : HoldsGuard(r) /\ HoldsGuard(q) => r = q
    /\ \A i, j \in 1..Len(created) :
           (i # j) => created[i].format # created[j].format
    /\ \A i, j \in 1..Len(pipeline_cache) :
           (i # j) => pipeline_cache[i].format # pipeline_cache[j].format
    /\ \A i \in 1..Len(pipeline_cache) :
           /\ pipeline_cache[i].pipeline.format = pipeline_cache[i].format
           /\ \E j \in 1..Len(created) : created[j] = pipeline_cache[i].pipeline
    /\ \A r \in Renderers :
           renderer[r].pc \in {"unlock", "idle"} /\ renderer[r].ret # None =>
               renderer[r].ret = FindPipeline(pipeline_cache, renderer[r].format)

(* One renderer has created the pipeline of a format and not yet pushed    *)
(* it, while another renderer that asks for the same format waits for the  *)
(* lock                                                                    *)
C23_Witness ==
    \E r, q \in Renderers :
        /\ renderer[r].pc = "push"
        /\ renderer[q].pc = "lock"
        /\ renderer[q].format = renderer[r].format
        /\ FindPipeline(pipeline_cache, renderer[r].format) = None

-----------------------------------------------------------------------------
(* What the frames in flight still read *)
PendingReads == UNION {pending[f] : f \in 1..Len(pending)}

(* An upload into plane k that writes over the pixels a pending read p     *)
(* takes from the same texture for another glyph                           *)
Overwrites(upload, k, into, p) ==
    /\ p.kind = k
    /\ p.texture = into
    /\ p.key # upload.key
    /\ Overlap(upload, p.rect)

(* The statement of C21: with the device one or more frames behind and     *)
(* trim() called once per frame after the frame is committed, no upload    *)
(* of the atlas (into a region reused after an eviction, or by a grow      *)
(* into the new texture) writes over the region of an entry that a frame   *)
(* in flight still reads.  The atlas keeps no record of frames in flight:  *)
(* after trim() the glyphs of the frame just committed can be evicted.     *)
C21_NoReuseWhilePending ==
    [][\A i \in 1..Len(out'.uploads) : \A p \in PendingReads :
          ~ Overwrites(out'.uploads[i], out'.kind, texture'[out'.kind], p)]_vars

(* A glyph was uploaded over the region of another glyph that a frame in   *)
(* flight reads from the same texture                                      *)
C21_Witness ==
    /\ out.op = "try_allocate" /\ out.ret = "Some"
    /\ out.evicted # <<>>
    /\ \E i \in 1..Len(out.uploads) : \E p \in PendingReads :
           Overwrites(out.uploads[i], out.kind, texture[out.kind], p)

(* What the in-use set does protect: the glyphs prepared for the frame     *)
(* being built are not written over by an upload for another glyph         *)
C21_CurrentFrameProtected ==
    [][\A i \in 1..Len(out'.uploads) : \A p \in Reads(out'.kind) :
          ~ Overwrites(out'.uploads[i], out'.kind, texture[out'.kind], p)]_vars

-----------------------------------------------------------------------------
(* C31: on each plane every cached entry that is not in use is less        *)
(* recently used than every entry that is in use.  Hence, when the least   *)
(* recently used entry is in use, every entry is; and when try_allocate    *)
(* has returned None at an entry in use, no entry that could be evicted,   *)
(* sized or not, is left behind it.                                        *)
C31_InUseAreMostRecent ==
    /\ InUseMostRecent
    /\ \A k \in Kinds :
           (glyph_cache[k] # <<>> /\ Head(glyph_cache[k]).key \in glyphs_in_use[k]) =>
               CacheKeys(glyph_cache[k]) \subseteq glyphs_in_use[k]
    /\ (pc = "grow" /\ out.op = "try_allocate") =>
           \A i \in 1..Len(glyph_cache[out.kind]) :
               glyph_cache[out.kind][i].key \in glyphs_in_use[out.kind]

(* A try_allocate that evicted an entry not in use and then returned None  *)
(* at an entry in use, with two entries or more left                       *)
C31_Witness ==
    /\ pc = "grow"
    /\ out.op = "try_allocate" /\ out.evicted # <<>>
    /\ Len(glyph_cache[out.kind]) >= 2
    /\ \E i \in 1..Len(glyph_cache[out.kind]) :
           glyph_cache[out.kind][i].atlas_id # None

(* C32: on each plane the glyphs in use are cached: glyphs_in_use is a    *)
(* subset of the keys of glyph_cache in every state, between the steps of  *)
(* a request as well, and no step takes an identity in use out of the      *)
(* cache.                                                                  *)
C32_InUseAreCached ==
    \A k \in Kinds :
        /\ glyphs_in_use[k] \subseteq CacheKeys(glyph_cache[k])
        /\ \A i \in 1..Len(out.evicted) :
               out.kind = k => out.evicted[i].key \notin glyphs_in_use[k]

(* A try_allocate has evicted an entry while two glyphs were in use, and   *)
(* both are still cached                                                   *)
C32_Witness ==
    /\ out.op = "try_allocate" /\ out.evicted # <<>>
    /\ Cardinality(glyphs_in_use[out.kind]) >= 2
    /\ glyphs_in_use[out.kind] \subseteq CacheKeys(glyph_cache[out.kind])

(* The region ids the sized entries of a cache name *)
OwnedIds(cache) == {cache[i].atlas_id[1] : i \in SizedEntries(cache)}

(* The region ids live in a packer *)
LiveIds(pk) == {a.id : a \in pk.allocations}

(* C33: no region is leaked or freed twice.  On each plane the live        *)
(* regions of the packer and the sized entries of the cache correspond     *)
(* one to one, in every state and so after every ensure_resident, grow     *)
(* and trim; a try_allocate deallocates the region of each sized entry it  *)
(* evicts, once, a region that was live, and nothing for an entry without  *)
(* a region.                                                               *)
C33_RegionsMatchEntries ==
    /\ [](\A k \in Kinds :
            /\ LiveIds(packer[k]) = OwnedIds(glyph_cache[k])
            /\ Cardinality(packer[k].allocations) = Cardinality(SizedEntries(glyph_cache[k]))
            /\ Cardinality(OwnedIds(glyph_cache[k])) = Cardinality(SizedEntries(glyph_cache[k])))
    /\ [][pc = "allocate" =>
            LET freed == out'.freed
                sized == SizedOf(out'.evicted)
            IN  /\ Len(freed) = Len(sized)
                /\ \A i \in 1..Len(freed) :
                       /\ freed[i] = sized[i].atlas_id[1]
                       /\ freed[i] \in LiveIds(packer[ReqPlane])
                /\ \A i, j \in 1..Len(freed) : i # j => freed[i] # freed[j]
                /\ Cardinality(packer'[ReqPlane].allocations)
                     = Cardinality(packer[ReqPlane].allocations) - Len(freed)
                       + (IF out'.ret = "Some" THEN 1 ELSE 0)]_vars

(* On a plane that has grown, a try_allocate has evicted a sized entry and *)
(* an entry without a region, and a sized entry is left                    *)
C33_Witness ==
    /\ out.op = "try_allocate"
    /\ out.freed # <<>>
    /\ Len(out.evicted) > Len(out.freed)
    /\ size[out.kind] > INITIAL_SIZE
    /\ SizedEntries(glyph_cache[out.kind]) # {}

(* C34: the recorded size of a plane, the side of its packer and the side *)
(* of its (square) texture are equal after construction and after every    *)
(* grow that returned.  grow enlarges the packer and replaces the texture  *)
(* before it sets size, so a grow cut short by its panic leaves the packer *)
(* and the texture at the new side and size at the old one: size is never  *)
(* larger than the space there is.                                         *)
C34_SidesAgree ==
    \A k \in Kinds :
        /\ packer[k].size = texture[k].size
        /\ size[k] <= packer[k].size
        /\ (pc # "aborted" \/ out.kind # k) => size[k] = packer[k].size
        /\ (pc = "aborted" /\ out.kind = k) => packer[k].size = NewSize(size[k])
        /\ size[k] >= INITIAL_SIZE /\ packer[k].size <= MAX_TEXTURE_DIMENSION_2D

(* A grow has returned true and brought the plane to the largest side *)
C34_Witness ==
    /\ out.op = "grow" /\ out.ret = "true"
    /\ size[out.kind] = MAX_TEXTURE_DIMENSION_2D
    /\ packer[out.kind].size = size[out.kind]
    /\ texture[out.kind].size = size[out.kind]

(* C35: a grow of a plane whose size is the maximum does nothing and      *)
(* returns false: the packer, the texture and the size of the plane, its   *)
(* cache and its glyphs in use are as before, on the other plane too, and  *)
(* no rasterizer is asked and nothing is uploaded.                         *)
C35_GrowAtMaximumNoOp ==
    [][pc = "grow" /\ size[ReqPlane] >= MAX_TEXTURE_DIMENSION_2D =>
          /\ out'.op = "grow" /\ out'.ret = "false"
          /\ out'.rasterized = <<>> /\ out'.uploads = <<>> /\ out'.answer = ""
          /\ packer' = packer
          /\ texture' = texture
          /\ size' = size
          /\ glyph_cache' = glyph_cache
          /\ glyphs_in_use' = glyphs_in_use
          /\ pc' = "idle"]_vars

(* A grow returned false on a plane at the maximum that caches a sized     *)
(* Custom glyph in use, which a grow below the maximum would rasterize     *)
C35_Witness ==
    /\ out.op = "grow" /\ out.ret = "false"
    /\ size[out.kind] = MAX_TEXTURE_DIMENSION_2D
    /\ \E i \in SizedEntries(glyph_cache[out.kind]) :
           /\ IsCustom(glyph_cache[out.kind][i].key)
           /\ glyph_cache[out.kind][i].key \in glyphs_in_use[out.kind]

(* C36: every try_allocate comes to an end within the entries it found.  *)
(* Each pass of its loop but the last removes at least one entry of the    *)
(* cache, so the call makes at most one call of packer.allocate more than  *)
(* there were entries, at most one peek more than there were entries, and  *)
(* the step that runs it always leaves the position allocate.              *)
C36_TryAllocateBounded ==
    [][pc = "allocate" =>
        LET cache == glyph_cache[ReqPlane]
        IN  /\ out'.op = "try_allocate"
            /\ pc' \in {"idle", "grow"}
            /\ out'.attempts >= 1
            /\ out'.attempts <= Len(cache) + 1
            /\ out'.attempts - 1 <= Len(out'.evicted)
            /\ Len(out'.evicted) <= Len(cache)
            /\ out'.peeks <= Len(cache) + 1
            /\ Len(Remaining) = Len(cache) - Len(out'.evicted)]_vars

(* A try_allocate that made as many calls of packer.allocate as the bound  *)
(* allows: it evicted two sized entries, all there were, and made three    *)
C36_Witness ==
    /\ out.op = "try_allocate"
    /\ out.attempts = 3
    /\ Len(out.evicted) = 2
    /\ CacheWithout(glyph_cache[out.kind], out.key) = <<>>

====
